---------------------------- MODULE Spec2Model ----------------------------
(***************************************************************************)
(* Model of the day/night lighting state machine of procedural-mountains   *)
(* (src/src/lighting/DayNightCycle.js) together with the collaborators it  *)
(* drives: the scene lights, fog and renderer, the sky uniforms and the    *)
(* terrain-shader uniforms; of the keyboard handler that calls toggle()    *)
(* (InputHandler, src/unnamed/part_000); and of the noise functions that   *)
(* give the terrain its height (fbm, ridgedNoise, domainWarp, alpineHeight *)
(* in src/unnamed/part_000, TerrainGenerator.getHeightAt).                 *)
(*                                                                         *)
(* Numbers.  JavaScript numbers are modelled as exact fixed-point values   *)
(* with the IEEE specials the code can produce (NaN, +-Infinity):          *)
(*   - time (deltaTime, elapsedTime, transitionDuration) is counted in     *)
(*     ticks of 0.25 s, so the default duration of 2.5 s is 10 ticks;      *)
(*   - transitionProgress is counted in units of 1/ProgressScale;          *)
(*   - the eased factor and every field of a lighting state are counted    *)
(*     in units of 1/Q of the field's own unit (Q = ProgressScale^3), so   *)
(*     that the cubic easing and the linear interpolation are exact;       *)
(*   - sunDirection is a unit vector: its normalisation uses an integer    *)
(*     square root at resolution 1/Q, a rounding of the float one.         *)
(* Rounding of IEEE doubles below that resolution is not modelled.         *)
(***************************************************************************)
EXTENDS Integers, Sequences, FiniteSets, TLC

VARIABLES
    currentState,        \* 0 = day, 1 = night
    targetState,         \* 0 = day, 1 = night
    transitionProgress,  \* Num, units of 1/ProgressScale
    transitionDuration,  \* ticks; any integer once setTransitionDuration ran
    isTransitioning,     \* BOOLEAN
    dayColors,           \* canonical day lighting state
    nightColors,         \* canonical night lighting state
    currentColors,       \* the interpolation buffer
    currentRefs,         \* the objects its vector and colour fields point to
    timeIndicator,       \* text of the UI element, or "absent"
    scene,               \* lights, fog and renderer exposure
    skyUniforms,         \* uniforms of the sky material
    terrainUniforms,     \* uniforms of the terrain material
    lastOp,              \* history: the last call made on the object
    keys,                \* InputHandler.keys: the codes whose entry is true
    downSeen,            \* history: codes whose 'down' trigger has run
    sinceDown,           \* history: per code, events since its 'down' trigger
    inputLast,           \* history: the last keyboard or window event
    sinceStart,          \* history: deltaTime since the transition started
    frame,               \* history: parity of the number of frames drawn
    toggles,             \* history: the toggle() calls of the transition
    noiseTable,          \* the noise function made when the module loads
    query,               \* a call of a pure function: its name and arguments
    answer,              \* what the call returned, Pending before it returns
    heightData,          \* TerrainGenerator.heightData
    geometry             \* TerrainGenerator.geometry, NoGeometry before generate()

vars == <<currentState, targetState, transitionProgress, transitionDuration,
          isTransitioning, dayColors, nightColors, currentColors,
          currentRefs, timeIndicator, scene, skyUniforms, terrainUniforms,
          lastOp, keys, downSeen, sinceDown, inputLast, sinceStart, frame,
          toggles,
          noiseTable, query, answer, heightData, geometry>>

\* the history of the frame loop
frameVars == <<sinceStart, frame, toggles>>

\* the noise module and the record of a call of a pure function
functionVars == <<noiseTable, query, answer>>

\* the fields of the TerrainGenerator object that generate() writes
terrainVars == <<heightData, geometry>>

\* the fields of the DayNightCycle object and of the objects it drives
lightingVars == <<currentState, targetState, transitionProgress,
                  transitionDuration, isTransitioning, dayColors, nightColors,
                  currentColors, currentRefs, timeIndicator, scene,
                  skyUniforms, terrainUniforms, lastOp>>

\* the fields of the InputHandler object, with the history of its events
inputVars == <<keys, downSeen, sinceDown, inputLast>>

---------------------------------------------------------------------------
(* Bounds of the model *)

\* largest deltaTime of one update() call, in ticks of 0.25 s
MaxDelta == 5

\* segments of the terrain grid along each side (the program asks for 256)
segments == 1

\* largest number of generate() calls on one TerrainGenerator
MaxGenerate == 2

\* largest elapsedTime handed to update(), in ticks
MaxElapsed == 1

\* number of distinct cells of the plane on which a noise function may take
\* independent values
MaxCells == 2

\* largest octaves argument of a direct fbm() or ridgedNoise() call
MaxOctaves == 3

\* update() calls that would take progress below -MaxNegProgress/ProgressScale
\* (possible only with a negative duration) are not explored
MaxNegProgress == 10

---------------------------------------------------------------------------
(* Program constants *)

\* this.transitionDuration = 2.5 seconds, in ticks of 0.25 s
DefaultDuration == 10

\* new TerrainGenerator({ width: 400, depth: 400, segments: 256,
\* heightScale: 120 })
width == 400

depth == 400

heightScale == 120

\* one tick of the default duration advances progress by one unit
ProgressScale == DefaultDuration

\* resolution of the eased factor and of the lighting-state fields
Q == ProgressScale * ProgressScale * ProgressScale

DeltaTimes == 0..MaxDelta

ElapsedTimes == 0..MaxElapsed

\* positive arguments of setTransitionDuration: 2.5 s and 1.25 s
PositiveDurations == {DefaultDuration, DefaultDuration \div 2}

\* the key codes the window delivers: the one with a callback and another
Codes == {"Space", "KeyW"}

\* arguments of setTransitionDuration of every sign: 2.5 s, 0 s and -2.5 s
Durations == {DefaultDuration, 0, 0 - DefaultDuration}

---------------------------------------------------------------------------
(* JavaScript numbers *)

Fin(n) == [kind |-> "fin", v |-> n]

NaN == [kind |-> "nan", v |-> 0]

PosInf == [kind |-> "inf", v |-> 0]

\* deltaTime / this.transitionDuration, in progress units; deltaTime >= 0
Quot(deltaTime, duration) ==
    IF duration = 0
    THEN (IF deltaTime = 0 THEN NaN ELSE PosInf)
    ELSE IF duration > 0
         THEN Fin((deltaTime * ProgressScale) \div duration)
         ELSE Fin(0 - ((deltaTime * ProgressScale) \div (0 - duration)))

\* a + b
Add(a, b) ==
    IF a.kind = "nan" \/ b.kind = "nan" THEN NaN
    ELSE IF a.kind = "inf" \/ b.kind = "inf" THEN PosInf
    ELSE Fin(a.v + b.v)

\* p >= 1 for a progress value (false for NaN)
GeOne(p) ==
    \/ p.kind = "inf"
    \/ p.kind = "fin" /\ p.v >= ProgressScale

RECURSIVE ISqrtBetween(_, _, _)
ISqrtBetween(n, lo, hi) ==
    IF lo >= hi THEN lo
    ELSE LET mid == (lo + hi + 1) \div 2
         IN  IF mid * mid <= n
             THEN ISqrtBetween(n, mid, hi)
             ELSE ISqrtBetween(n, lo, mid - 1)

\* floor of the square root of n, 0 <= n < 2^31
ISqrt(n) == ISqrtBetween(n, 0, 46340)

\* THREE.Vector3.normalize() of a vector in units of 1/Q:
\* divideScalar(this.length() || 1)
Normalize(vec) ==
    IF \E i \in 1..3 : vec[i].kind # "fin" THEN <<NaN, NaN, NaN>>
    ELSE LET len == ISqrt(vec[1].v * vec[1].v + vec[2].v * vec[2].v
                          + vec[3].v * vec[3].v)
             d   == IF len = 0 THEN Q ELSE len
         IN  [i \in 1..3 |-> Fin((vec[i].v * Q) \div d)]

---------------------------------------------------------------------------
(* Terrain noise *)

(***************************************************************************)
(* Coordinates, noise values and heights are counted in units of 1/Q;      *)
(* persistence, lacunarity, scale and warpStrength in tenths; amplitudes   *)
(* in units of 1/AmpScale, which keeps five multiplications by a           *)
(* persistence given in tenths exact.                                      *)
(*                                                                         *)
(* simplex-noise is not part of the repository.  createNoise2D() returns a *)
(* function of the plane into [-1, 1] built from a permutation table that  *)
(* is filled, with no argument given, from Math.random.  A noise function  *)
(* is modelled as a table of values over cells of the plane: every table   *)
(* is a function createNoise2D() may return, and the value at a point      *)
(* depends on the table and the point alone.                               *)
(***************************************************************************)

NegInf == [kind |-> "ninf", v |-> 0]

\* the answer of a call that has not returned
Pending == [kind |-> "pending", v |-> 0]

AmpScale == Q * (Q \div 10)

NoiseValues == {0 - Q, 0 - (Q \div 2), 0, Q \div 2, Q}

Cells == 0..(MaxCells - 1)

\* the functions createNoise2D() may return
Tables == [Cells -> NoiseValues]

\* side of a cell of the plane
CellSize == Q \div 4

\* noise2D(x, y) of the function made from a table
noise2D(table, x, y) ==
    table[((x \div CellSize) * 7 + (y \div CellSize) * 13) % MaxCells]

\* total / maxValue: total in units of 1/(Q * AmpScale), maxValue in units
\* of 1/AmpScale, the quotient in units of 1/Q
Ratio(total, maxValue) ==
    IF maxValue = 0
    THEN (IF total = 0 THEN NaN ELSE IF total > 0 THEN PosInf ELSE NegInf)
    ELSE IF maxValue > 0
         THEN Fin(total \div maxValue)
         ELSE Fin((0 - total) \div (0 - maxValue))

\* the loop of fbm: for (let i = 0; i < octaves; i++) { ... }
RECURSIVE fbmLoop(_, _, _, _, _, _, _, _)
fbmLoop(table, x, y, i, octaves, persistence, lacunarity, acc) ==
    IF i >= octaves THEN acc
    ELSE fbmLoop(table, x, y, i + 1, octaves, persistence, lacunarity,
            [total     |-> acc.total
                           + noise2D(table, (x * acc.frequency) \div Q,
                                     (y * acc.frequency) \div Q)
                             * acc.amplitude,
             maxValue  |-> acc.maxValue + acc.amplitude,
             amplitude |-> (acc.amplitude * persistence) \div 10,
             frequency |-> (acc.frequency * lacunarity) \div 10])

\* the variables of the loops before the first octave
LoopStart(scale) ==
    [total |-> 0, frequency |-> scale * (Q \div 10), amplitude |-> AmpScale,
     maxValue |-> 0]

\* fbm that returns the weighted sum without dividing it
fbmNotNormalised(table, x, y, octaves, persistence, lacunarity, scale) ==
    LET r == fbmLoop(table, x, y, 0, octaves, persistence, lacunarity,
                     LoopStart(scale))
    IN  Fin(r.total \div AmpScale)

fbm(table, x, y, octaves, persistence, lacunarity, scale) ==
    LET r == fbmLoop(table, x, y, 0, octaves, persistence, lacunarity,
                     LoopStart(scale))
    IN  Ratio(r.total, r.maxValue)

\* a ridge that forgets the absolute value: n = 1 - n; n = n * n
ridgeNoAbs(n) ==
    ((Q - n) * (Q - n)) \div Q

\* n = 1.0 - Math.abs(n); n = n * n
ridge(n) ==
    LET m == Q - (IF n < 0 THEN 0 - n ELSE n)
    IN  (m * m) \div Q

\* the loop of ridgedNoise
RECURSIVE ridgedLoop(_, _, _, _, _, _, _, _)
ridgedLoop(table, x, y, i, octaves, persistence, lacunarity, acc) ==
    IF i >= octaves THEN acc
    ELSE ridgedLoop(table, x, y, i + 1, octaves, persistence, lacunarity,
            [total     |-> acc.total
                           + ridge(noise2D(table, (x * acc.frequency) \div Q,
                                           (y * acc.frequency) \div Q))
                             * acc.amplitude,
             maxValue  |-> acc.maxValue + acc.amplitude,
             amplitude |-> (acc.amplitude * persistence) \div 10,
             frequency |-> (acc.frequency * lacunarity) \div 10])

ridgedNoise(table, x, y, octaves, persistence, lacunarity, scale) ==
    LET r == ridgedLoop(table, x, y, 0, octaves, persistence, lacunarity,
                        LoopStart(scale))
    IN  Ratio(r.total, r.maxValue)

\* the two fbm samples of domainWarp have four octaves and persistence 0.5:
\* they are finite
domainWarp(table, x, y, warpStrength, scale) ==
    LET warpX == fbm(table, x, y, 4, 5, 20, scale)
        warpY == fbm(table, x + 52 * (Q \div 10), y + 13 * (Q \div 10),
                     4, 5, 20, scale)
    IN  [x |-> x + (warpX.v * warpStrength) \div 10,
         y |-> y + (warpY.v * warpStrength) \div 10]

\* Math.pow(h, 1.3) for h in units of 1/Q: NaN for a negative base,
\* otherwise the curve tabulated at steps of 0.1 and interpolated linearly
PowTable ==
    <<0, 50, 123, 209, 304, 406, 515, 629, 748, 872, 1000, 1132, 1267, 1406>>

Pow13(h) ==
    IF h < 0 THEN NaN
    ELSE LET step == Q \div 10
             i    == IF h \div step + 2 > Len(PowTable)
                     THEN Len(PowTable) - 1
                     ELSE h \div step + 1
         IN  Fin(PowTable[i] + ((PowTable[i + 1] - PowTable[i])
                                * (h - (i - 1) * step)) \div step)

\* Math.max(0, Math.min(1, h)): NaN goes through both
Clamp01(h) ==
    IF h.kind = "nan" THEN NaN
    ELSE IF h.v > Q THEN Fin(Q)
    ELSE IF h.v < 0 THEN Fin(0)
    ELSE h

\* the height before the power curve, (height + 1) * 0.5, from the four
\* noise layers.  The blend is computed exactly over the denominator
\* 20 * Q * Q (ridgeBlend in units of 1/(2 * Q)) and rounded once.
Remapped(baseHeight, ridges, largeScale, detailNoise) ==
    LET blend2 == IF largeScale + Q < 0 THEN 0 ELSE largeScale + Q
        num    == baseHeight * (20 * Q - 6 * blend2)
                  + ridges * blend2 * 8
                  + detailNoise * 2 * Q
    IN  (num + 20 * Q * Q) \div (40 * Q)

alpineHeight(table, x, y) ==
    LET warped      == domainWarp(table, x, y, 4, 3)
        baseHeight  == fbm(table, warped.x, warped.y, 5, 5, 20, 15)
        ridges      == ridgedNoise(table, warped.x, warped.y, 5, 5, 22, 20)
        largeScale  == fbm(table, x, y, 3, 4, 20, 4)
        detailNoise == fbm(table, x * 4, y * 4, 3, 4, 25, 40)
        powered     == Pow13(Remapped(baseHeight.v, ridges.v, largeScale.v,
                                      detailNoise.v))
        valley      == IF powered.kind = "fin" /\ powered.v < Q \div 4
                       THEN Fin((powered.v * 7) \div 10 + ((Q \div 4) * 3) \div 10)
                       ELSE powered
    IN  Clamp01(valley)

\* getHeightAt with the borders of the terrain left out
getHeightAtOpen(table, x, z) ==
    LET nx == ((x + width \div 2) * Q) \div width
        nz == ((z + depth \div 2) * Q) \div depth
        h  == alpineHeight(table, nx, nz)
    IN  IF nx <= 0 \/ nx >= Q \/ nz <= 0 \/ nz >= Q
        THEN Fin(0)
        ELSE IF h.kind = "fin" THEN Fin(h.v * heightScale) ELSE h

\* TerrainGenerator.getHeightAt(x, z), x and z in whole world units
getHeightAt(table, x, z) ==
    LET nx == ((x + width \div 2) * Q) \div width
        nz == ((z + depth \div 2) * Q) \div depth
        h  == alpineHeight(table, nx, nz)
    IN  IF nx < 0 \/ nx > Q \/ nz < 0 \/ nz > Q
        THEN Fin(0)
        ELSE IF h.kind = "fin" THEN Fin(h.v * heightScale) ELSE h

---------------------------------------------------------------------------
(* Lighting states *)

\* new THREE.Vector3(x, y, z), whole units
Vec(x, y, z) == <<Fin(x * Q), Fin(y * Q), Fin(z * Q)>>

\* new THREE.Vector3(x, y, z).normalize(), x y z given in tenths
Dir(x, y, z) == Normalize(<<Fin(x * 100), Fin(y * 100), Fin(z * 100)>>)

\* new THREE.Color(r, g, b), channels given in hundredths
Col(r, g, b) == <<Fin(r * Q), Fin(g * Q), Fin(b * Q)>>

\* a scalar field given in the field's own unit
Sc(n) == Fin(n * Q)

VectorFields == {"sunPosition", "sunDirection"}

ColorFields == {"sunColor", "ambientColor", "hemiSkyColor", "hemiGroundColor",
                "skyTopColor", "skyMiddleColor", "skyBottomColor",
                "skyHorizonColor", "skySunColor", "fogColor"}

\* intensities and exposure in tenths, fogDensity in 1/10000,
\* terrainDayNightMix in whole units
ScalarFields == {"sunIntensity", "ambientIntensity", "hemiIntensity",
                 "skySunIntensity", "skyStarIntensity", "fogDensity",
                 "terrainDayNightMix", "exposure"}

createDayState ==
    [sunPosition        |-> Vec(100, 200, 80),
     sunDirection       |-> Dir(4, 8, 3),
     sunColor           |-> Col(100, 98, 92),
     sunIntensity       |-> Sc(20),
     ambientColor       |-> Col(50, 60, 80),
     ambientIntensity   |-> Sc(5),
     hemiSkyColor       |-> Col(60, 75, 90),
     hemiGroundColor    |-> Col(30, 40, 25),
     hemiIntensity      |-> Sc(4),
     skyTopColor        |-> Col(15, 35, 75),
     skyMiddleColor     |-> Col(40, 60, 85),
     skyBottomColor     |-> Col(50, 55, 60),
     skyHorizonColor    |-> Col(65, 78, 88),
     skySunColor        |-> Col(100, 98, 92),
     skySunIntensity    |-> Sc(12),
     skyStarIntensity   |-> Sc(0),
     fogColor           |-> Col(60, 75, 90),
     fogDensity         |-> Sc(8),
     terrainDayNightMix |-> Sc(0),
     exposure           |-> Sc(10)]

createNightState ==
    [sunPosition        |-> Vec(0 - 80, 100, 0 - 60),
     sunDirection       |-> Dir(0 - 3, 6, 0 - 3),
     sunColor           |-> Col(60, 70, 90),
     sunIntensity       |-> Sc(3),
     ambientColor       |-> Col(10, 12, 20),
     ambientIntensity   |-> Sc(3),
     hemiSkyColor       |-> Col(8, 10, 20),
     hemiGroundColor    |-> Col(2, 3, 5),
     hemiIntensity      |-> Sc(2),
     skyTopColor        |-> Col(1, 1, 5),
     skyMiddleColor     |-> Col(3, 4, 10),
     skyBottomColor     |-> Col(2, 2, 5),
     skyHorizonColor    |-> Col(6, 7, 12),
     skySunColor        |-> Col(80, 85, 100),
     skySunIntensity    |-> Sc(5),
     skyStarIntensity   |-> Sc(10),
     fogColor           |-> Col(5, 6, 10),
     fogDensity         |-> Sc(15),
     terrainDayNightMix |-> Sc(1),
     exposure           |-> Sc(6)]

\* a field-by-field copy: every vector and colour is cloned, scalars copied
cloneState(state) ==
    [f \in DOMAIN state |-> state[f]]

\* a clone that shares the vector and colour objects of the state it copies
cloneRefsShared(owner) ==
    [f \in VectorFields \cup ColorFields |-> <<owner, f>>]

\* the objects behind the vector and colour fields of cloneState(owner):
\* each is made by .clone(), a new object that belongs to the copy alone
cloneRefs(owner) ==
    [f \in VectorFields \cup ColorFields |-> <<"currentColors", f>>]

\* an easing whose first half rises twice as fast: 8*t*t*t
easeSteepStart(t) ==
    IF t.kind = "nan" THEN NaN
    ELSE IF t.kind = "inf" THEN PosInf
    ELSE IF 2 * t.v < ProgressScale
         THEN Fin(8 * t.v * t.v * t.v)
         ELSE LET u == 2 * ProgressScale - 2 * t.v
              IN  Fin(Q - ((u * u * u) \div 2))

\* t < 0.5 ? 4*t*t*t : 1 - Math.pow(-2*t + 2, 3) / 2
\* t in units of 1/ProgressScale, result in units of 1/Q
easeInOutCubic(t) ==
    IF t.kind = "nan" THEN NaN
    ELSE IF t.kind = "inf" THEN PosInf
    ELSE IF 2 * t.v < ProgressScale
         THEN Fin(4 * t.v * t.v * t.v)
         ELSE LET u == 2 * ProgressScale - 2 * t.v
              IN  Fin(Q - ((u * u * u) \div 2))

\* THREE.MathUtils.lerp(x, y, t) = (1 - t) * x + t * y, t in units of 1/Q
Lerp(x, y, t) ==
    IF x.kind # "fin" \/ y.kind # "fin" \/ t.kind # "fin" THEN NaN
    ELSE Fin(((Q - t.v) * x.v + t.v * y.v) \div Q)

\* one component of lerpVectors / lerpColors: v1 + (v2 - v1) * alpha
LerpComponent(v1, v2, alpha) ==
    IF v1.kind # "fin" \/ v2.kind # "fin" \/ alpha.kind # "fin" THEN NaN
    ELSE Fin(v1.v + ((v2.v - v1.v) * alpha.v) \div Q)

\* THREE.Vector3.lerpVectors(v1, v2, alpha) and THREE.Color.lerpColors
LerpTriple(v1, v2, alpha) ==
    [i \in 1..3 |-> LerpComponent(v1[i], v2[i], alpha)]

\* lerpState that forgets the easing and interpolates at the raw progress
lerpStateLinear(from, to, t) ==
    LET raw == IF t.kind = "fin"
               THEN Fin(t.v * ProgressScale * ProgressScale)
               ELSE t
    IN  [f \in VectorFields \cup ColorFields \cup ScalarFields |->
            IF f = "sunDirection"
            THEN Normalize(LerpTriple(from[f], to[f], raw))
            ELSE IF f \in VectorFields \cup ColorFields
                 THEN LerpTriple(from[f], to[f], raw)
                 ELSE Lerp(from[f], to[f], raw)]

\* the contents of target after lerpState(from, to, t, target): every field
\* of target is overwritten, so the result does not depend on its old value
lerpState(from, to, t) ==
    LET eased == easeInOutCubic(t)
    IN  [f \in VectorFields \cup ColorFields \cup ScalarFields |->
            IF f = "sunDirection"
            THEN Normalize(LerpTriple(from[f], to[f], eased))
            ELSE IF f \in VectorFields \cup ColorFields
                 THEN LerpTriple(from[f], to[f], eased)
                 ELSE Lerp(from[f], to[f], eased)]

---------------------------------------------------------------------------
(* The sink: scene lights, fog, renderer, sky and terrain uniforms *)

\* what applyState writes to the lights, the fog and the renderer
applyScene(state) ==
    [sunLightPosition     |-> state.sunPosition,
     sunLightColor        |-> state.sunColor,
     sunLightIntensity    |-> state.sunIntensity,
     ambientLightColor    |-> state.ambientColor,
     ambientLightIntensity |-> state.ambientIntensity,
     hemiLightColor       |-> state.hemiSkyColor,
     hemiLightGroundColor |-> state.hemiGroundColor,
     hemiLightIntensity   |-> state.hemiIntensity,
     fogColor             |-> state.fogColor,
     fogDensity           |-> state.fogDensity,
     toneMappingExposure  |-> state.exposure]

\* this.sky.updateUniforms({topColor, ..., starIntensity}): the eight keys
\* applyState passes are all present; uSunSize and uTime are not among them
applySky(uniforms, state) ==
    [uniforms EXCEPT !.uTopColor      = state.skyTopColor,
                     !.uMiddleColor   = state.skyMiddleColor,
                     !.uBottomColor   = state.skyBottomColor,
                     !.uHorizonColor  = state.skyHorizonColor,
                     !.uSunColor      = state.skySunColor,
                     !.uSunPosition   = state.sunPosition,
                     !.uSunIntensity  = state.skySunIntensity,
                     !.uStarIntensity = state.skyStarIntensity]

\* applyState of an object made without a terrain material
applyTerrainAbsent(uniforms, state) ==
    uniforms

\* updateTerrainUniforms(material, {sunDirection, ..., fogDensity});
\* the direction is copied and normalised again
applyTerrain(uniforms, state) ==
    [uniforms EXCEPT !.uSunDirection     = Normalize(state.sunDirection),
                     !.uSunColor         = state.sunColor,
                     !.uSunIntensity     = state.sunIntensity,
                     !.uAmbientColor     = state.ambientColor,
                     !.uAmbientIntensity = state.ambientIntensity,
                     !.uDayNightMix      = state.terrainDayNightMix,
                     !.uFogColor         = state.fogColor,
                     !.uFogDensity       = state.fogDensity]

\* the sky material as Sky's constructor leaves it
SkyInitial ==
    [uTopColor      |-> Col(20, 40, 80),
     uMiddleColor   |-> Col(40, 60, 90),
     uBottomColor   |-> Col(50, 60, 70),
     uHorizonColor  |-> Col(70, 80, 90),
     uSunColor      |-> Col(100, 95, 80),
     uSunPosition   |-> Vec(100, 150, 80),
     uSunSize       |-> Sc(15),
     uSunIntensity  |-> Sc(10),
     uStarIntensity |-> Sc(0),
     uTime          |-> 0]

\* the terrain material as createTerrainMaterial leaves it
TerrainInitial ==
    [uSunDirection     |-> Dir(5, 7, 3),
     uSunColor         |-> Col(100, 95, 80),
     uSunIntensity     |-> Sc(12),
     uAmbientColor     |-> Col(40, 50, 70),
     uAmbientIntensity |-> Sc(4),
     uTime             |-> 0,
     uDayNightMix      |-> Sc(0),
     uFogColor         |-> Col(60, 75, 90),
     uFogDensity       |-> Sc(12)]

---------------------------------------------------------------------------
(* Queries *)

\* isDay() that forgets the transition test
isDayIgnoresTransition == currentState = 0

isDay == currentState = 0 /\ ~isTransitioning

isNight == currentState = 1 /\ ~isTransitioning

\* units of 1/Q
getCurrentValue ==
    IF ~isTransitioning
    THEN Fin(currentState * Q)
    ELSE LET direction == IF targetState > currentState THEN 1 ELSE 0 - 1
             eased     == easeInOutCubic(transitionProgress)
         IN  IF eased.kind = "fin"
             THEN Fin(currentState * Q + direction * eased.v)
             ELSE eased

---------------------------------------------------------------------------
(* Operations *)

\* a call: its name, its deltaTime and elapsedTime (update only), whether a
\* transition was active when it was made, whether it called applyState, and
\* whether the call before it was an update that called applyState
Op(name, dt, et, wasActive, pushed) ==
    [op |-> name, dt |-> dt, et |-> et, wasActive |-> wasActive,
     pushed |-> pushed, afterPush |-> lastOp.op = "update" /\ lastOp.pushed]

\* the objects right after their constructors: InputHandler has no key
\* pressed; DayNightCycle is as its constructor leaves it, main.js having
\* handed it the material of the generated terrain
\* this.geometry = null: no attribute, no position
NoGeometry == [aHeight |-> <<>>, y |-> <<>>]

\* the four fields of the state machine
machine ==
    [currentState |-> currentState, targetState |-> targetState,
     transitionProgress |-> transitionProgress,
     isTransitioning |-> isTransitioning]

\* no toggle() has been made yet
NoToggles ==
    [from |-> 0, odd |-> FALSE, last |-> FALSE, pair |-> FALSE,
     before |-> [currentState |-> 0, targetState |-> 0,
                 transitionProgress |-> Fin(0), isTransitioning |-> FALSE]]

Constructed ==
    /\ currentState = 0
    /\ targetState = 0
    /\ transitionProgress = Fin(0)
    /\ transitionDuration = DefaultDuration
    /\ isTransitioning = FALSE
    /\ dayColors = createDayState
    /\ nightColors = createNightState
    /\ currentColors = cloneState(createDayState)
    /\ currentRefs = cloneRefs("dayColors")
    /\ scene = applyScene(cloneState(createDayState))
    /\ skyUniforms = applySky(SkyInitial, cloneState(createDayState))
    /\ terrainUniforms = applyTerrain(TerrainInitial, cloneState(createDayState))
    /\ lastOp = [op |-> "constructor", dt |-> 0, et |-> 0, wasActive |-> FALSE,
                 pushed |-> TRUE, afterPush |-> FALSE]
    /\ keys = {}
    /\ downSeen = {}
    /\ sinceDown = [c \in Codes |-> {}]
    /\ inputLast = [ev |-> "none", code |-> "none", down |-> FALSE,
                    toggled |-> FALSE, again |-> FALSE, between |-> {}]
    /\ sinceStart = [elapsed |-> 0, reversed |-> FALSE]
    /\ frame = 0
    /\ toggles = NoToggles
    /\ heightData = <<>>
    /\ geometry = NoGeometry

\* no call of a pure function is on record
NoQuery == [fn |-> "none"]

\* the application when AlpineTerrain's constructor returns: the page either
\* has the #time-indicator element (with its initial text) or not; the
\* noise function is one of those createNoise2D() may return
Init ==
    /\ Constructed
    /\ timeIndicator \in {"absent", "initial"}
    /\ noiseTable = [c \in Cells |-> 0]
    /\ query = NoQuery
    /\ answer = Pending

\* updateUI: the indicator shows the name of the target state
updateUI(indicator, target) ==
    IF indicator # "absent"
    THEN (IF target = 0 THEN "Day" ELSE "Night")
    ELSE indicator

\* toggle() that forgets to reset the progress when it starts a transition
toggleKeepsProgress ==
    /\ IF isTransitioning
       THEN /\ targetState' = (IF targetState = 0 THEN 1 ELSE 0)
            /\ UNCHANGED <<isTransitioning, transitionProgress>>
       ELSE /\ targetState' = (IF currentState = 0 THEN 1 ELSE 0)
            /\ isTransitioning' = TRUE
            /\ UNCHANGED transitionProgress
    /\ timeIndicator' = updateUI(timeIndicator, targetState')
    /\ lastOp' = Op("toggle", 0, 0, isTransitioning, FALSE)
    /\ UNCHANGED <<currentState, transitionDuration, dayColors, nightColors,
                   currentColors, currentRefs, scene, skyUniforms,
                   terrainUniforms>>

\* toggle() that restarts the transition when it reverses it
toggleRestarts ==
    /\ targetState' = (IF isTransitioning
                       THEN (IF targetState = 0 THEN 1 ELSE 0)
                       ELSE (IF currentState = 0 THEN 1 ELSE 0))
    /\ isTransitioning' = TRUE
    /\ transitionProgress' = Fin(0)
    /\ timeIndicator' = updateUI(timeIndicator, targetState')
    /\ lastOp' = Op("toggle", 0, 0, isTransitioning, FALSE)
    /\ UNCHANGED <<currentState, transitionDuration, dayColors, nightColors,
                   currentColors, currentRefs, scene, skyUniforms,
                   terrainUniforms>>

\* toggle() that mirrors the progress when it reverses the transition
toggleMirrorsProgress ==
    /\ IF isTransitioning
       THEN /\ targetState' = (IF targetState = 0 THEN 1 ELSE 0)
            /\ transitionProgress' =
                    (IF transitionProgress.kind = "fin"
                     THEN Fin(ProgressScale - transitionProgress.v)
                     ELSE transitionProgress)
            /\ UNCHANGED isTransitioning
       ELSE /\ targetState' = (IF currentState = 0 THEN 1 ELSE 0)
            /\ isTransitioning' = TRUE
            /\ transitionProgress' = Fin(0)
    /\ timeIndicator' = updateUI(timeIndicator, targetState')
    /\ lastOp' = Op("toggle", 0, 0, isTransitioning, FALSE)
    /\ UNCHANGED <<currentState, transitionDuration, dayColors, nightColors,
                   currentColors, currentRefs, scene, skyUniforms,
                   terrainUniforms>>

\* toggle() that switches currentState as soon as a transition starts
toggleSwitchesAtOnce ==
    /\ IF isTransitioning
       THEN /\ targetState' = (IF targetState = 0 THEN 1 ELSE 0)
            /\ UNCHANGED <<currentState, isTransitioning, transitionProgress>>
       ELSE /\ targetState' = (IF currentState = 0 THEN 1 ELSE 0)
            /\ currentState' = targetState'
            /\ isTransitioning' = TRUE
            /\ transitionProgress' = Fin(0)
    /\ timeIndicator' = updateUI(timeIndicator, targetState')
    /\ lastOp' = Op("toggle", 0, 0, isTransitioning, FALSE)
    /\ UNCHANGED <<transitionDuration, dayColors, nightColors,
                   currentColors, currentRefs, scene, skyUniforms,
                   terrainUniforms>>

\* toggle() that always aims at the opposite of currentState
toggleRetargetsOpposite ==
    /\ IF isTransitioning
       THEN /\ targetState' = (IF currentState = 0 THEN 1 ELSE 0)
            /\ UNCHANGED <<isTransitioning, transitionProgress>>
       ELSE /\ targetState' = (IF currentState = 0 THEN 1 ELSE 0)
            /\ isTransitioning' = TRUE
            /\ transitionProgress' = Fin(0)
    /\ timeIndicator' = updateUI(timeIndicator, targetState')
    /\ lastOp' = Op("toggle", 0, 0, isTransitioning, FALSE)
    /\ UNCHANGED <<currentState, transitionDuration, dayColors, nightColors,
                   currentColors, currentRefs, scene, skyUniforms,
                   terrainUniforms>>

toggle ==
    /\ IF isTransitioning
       THEN /\ targetState' = (IF targetState = 0 THEN 1 ELSE 0)
            /\ UNCHANGED <<isTransitioning, transitionProgress>>
       ELSE /\ targetState' = (IF currentState = 0 THEN 1 ELSE 0)
            /\ isTransitioning' = TRUE
            /\ transitionProgress' = Fin(0)
    /\ timeIndicator' = updateUI(timeIndicator, targetState')
    /\ lastOp' = Op("toggle", 0, 0, isTransitioning, FALSE)
    /\ UNCHANGED <<currentState, transitionDuration, dayColors, nightColors,
                   currentColors, currentRefs, scene, skyUniforms,
                   terrainUniforms>>

\* the increment without the clamp to 1
advanceNoClamp(progress, deltaTime, duration) ==
    Add(progress, Quot(deltaTime, duration))

\* the progress after the increment and the clamp of an active update
advance(progress, deltaTime, duration) ==
    LET raised == Add(progress, Quot(deltaTime, duration))
    IN  IF GeOne(raised) THEN Fin(ProgressScale) ELSE raised

\* completion tested with > 1 instead of >= 1
completesStrict(progress, deltaTime, duration) ==
    LET raised == Add(progress, Quot(deltaTime, duration))
    IN  raised.kind = "inf" \/ (raised.kind = "fin" /\ raised.v > ProgressScale)

\* whether an active update with this increment completes the transition
completes(progress, deltaTime, duration) ==
    GeOne(Add(progress, Quot(deltaTime, duration)))

\* a lookup that hands out the day state for either state
stateOfAlwaysDay(s) == dayColors

stateOf(s) == IF s = 0 THEN dayColors ELSE nightColors

\* lerpState(from, to, t, this.currentColors) writes each vector and colour
\* in place (lerpVectors, lerpColors, copy) into the object that the field of
\* the buffer points to: a canonical state changes exactly where the buffer
\* holds one of its objects
written(owner, canonical, blended) ==
    [f \in DOMAIN canonical |->
        IF f \in DOMAIN currentRefs /\ currentRefs[f] = <<owner, f>>
        THEN blended[f]
        ELSE canonical[f]]

\* update() that forwards the elapsed time only while a transition is active
updateTimeOnlyWhenActive(deltaTime, elapsedTime) ==
    LET skyTimed     == [skyUniforms EXCEPT !.uTime = elapsedTime]
        terrainTimed == [terrainUniforms EXCEPT !.uTime = elapsedTime]
        done == completes(transitionProgress, deltaTime, transitionDuration)
        p    == advance(transitionProgress, deltaTime, transitionDuration)
        cur  == IF done THEN targetState ELSE currentState
        blended == lerpState(stateOf(cur), stateOf(targetState), p)
    IN  /\ IF isTransitioning
           THEN /\ p.kind = "fin" => p.v >= 0 - MaxNegProgress
                /\ transitionProgress' = p
                /\ currentState' = cur
                /\ isTransitioning' = ~done
                /\ currentColors' = blended
                /\ scene' = applyScene(blended)
                /\ skyUniforms' = applySky(skyTimed, blended)
                /\ terrainUniforms' = applyTerrain(terrainTimed, blended)
           ELSE UNCHANGED <<transitionProgress, currentState, isTransitioning,
                            currentColors, scene, skyUniforms, terrainUniforms>>
        /\ lastOp' = Op("update", deltaTime, elapsedTime, isTransitioning,
                      isTransitioning)
        /\ UNCHANGED <<targetState, transitionDuration, dayColors,
                       nightColors, currentRefs, timeIndicator>>

update(deltaTime, elapsedTime) ==
    LET skyTimed     == [skyUniforms EXCEPT !.uTime = elapsedTime]
        terrainTimed == [terrainUniforms EXCEPT !.uTime = elapsedTime]
        done == completes(transitionProgress, deltaTime, transitionDuration)
        p    == advance(transitionProgress, deltaTime, transitionDuration)
        cur  == IF done THEN targetState ELSE currentState
        blended == lerpState(stateOf(cur), stateOf(targetState), p)
    IN  /\ IF isTransitioning
           THEN /\ p.kind = "fin" => p.v >= 0 - MaxNegProgress
                /\ transitionProgress' = p
                /\ currentState' = cur
                /\ isTransitioning' = ~done
                /\ currentColors' = blended
                /\ scene' = applyScene(blended)
                /\ skyUniforms' = applySky(skyTimed, blended)
                /\ terrainUniforms' = applyTerrain(terrainTimed, blended)
                /\ dayColors' = written("dayColors", dayColors, blended)
                /\ nightColors' = written("nightColors", nightColors, blended)
           ELSE /\ skyUniforms' = skyTimed
                /\ terrainUniforms' = terrainTimed
                /\ UNCHANGED <<transitionProgress, currentState,
                               isTransitioning, currentColors, scene,
                               dayColors, nightColors>>
        /\ lastOp' = Op("update", deltaTime, elapsedTime, isTransitioning,
                      isTransitioning)
        /\ UNCHANGED <<targetState, transitionDuration, currentRefs,
                       timeIndicator>>

setTransitionDuration(duration) ==
    /\ transitionDuration' = duration
    /\ lastOp' = Op("setTransitionDuration", 0, 0, isTransitioning, FALSE)
    /\ UNCHANGED <<currentState, targetState, transitionProgress,
                   isTransitioning, dayColors, nightColors, currentColors,
                   currentRefs, timeIndicator, scene, skyUniforms,
                   terrainUniforms>>

\* the callbacks registered with InputHandler.on: setupControls registers
\* one, for 'Space_down', that calls dayNightCycle.toggle()
callbacks == {<<"Space", "down">>}

\* triggerCallback(keyCode, eventType): runs the callbacks of the key, if any
triggerCallback(keyCode, eventType) ==
    IF <<keyCode, eventType>> \in callbacks
    THEN toggle
    ELSE UNCHANGED lightingVars

\* the record kept of an event: whether it ran the 'down' trigger, whether
\* that ran toggle(), whether the trigger had run before for the code, and
\* which events for the code came since it last ran
Event(ev, code, down) ==
    [ev |-> ev, code |-> code, down |-> down,
     toggled |-> down /\ <<code, "down">> \in callbacks,
     again |-> code \in downSeen,
     between |-> IF code \in Codes THEN sinceDown[code] ELSE {}]

\* the keydown listener: the trigger runs only if the key is not marked
keydown(code) ==
    IF code \notin keys
    THEN /\ keys' = keys \cup {code}
         /\ triggerCallback(code, "down")
         /\ downSeen' = downSeen \cup {code}
         /\ sinceDown' = [sinceDown EXCEPT ![code] = {}]
         /\ inputLast' = Event("keydown", code, TRUE)
    ELSE /\ inputLast' = Event("keydown", code, FALSE)
         /\ UNCHANGED <<keys, downSeen, sinceDown, lightingVars>>

\* the keyup listener: unmarks the key and runs its 'up' trigger
keyup(code) ==
    /\ keys' = keys \ {code}
    /\ triggerCallback(code, "up")
    /\ sinceDown' = [sinceDown EXCEPT ![code] = @ \cup {"keyup"}]
    /\ inputLast' = Event("keyup", code, FALSE)
    /\ UNCHANGED downSeen

\* the blur listener: forgets every key
blur ==
    /\ keys' = {}
    /\ sinceDown' = [c \in Codes |-> sinceDown[c] \cup {"blur"}]
    /\ inputLast' = Event("blur", "none", FALSE)
    /\ UNCHANGED <<downSeen, lightingVars>>

\* the frame loop and the calls of the public API, with the duration kept
\* positive
Next ==
    \/ toggle /\ UNCHANGED <<inputVars, frameVars, functionVars, terrainVars>>
    \/ \E dt \in DeltaTimes, et \in ElapsedTimes :
          update(dt, et) /\ UNCHANGED <<inputVars, frameVars, functionVars, terrainVars>>
    \/ \E d \in PositiveDurations :
          setTransitionDuration(d) /\ UNCHANGED <<inputVars, frameVars, functionVars, terrainVars>>

Spec == Init /\ [][Next]_vars

\* the same with any duration, non-positive ones included
NextAnyDuration ==
    \/ toggle /\ UNCHANGED <<inputVars, frameVars, functionVars, terrainVars>>
    \/ \E dt \in DeltaTimes, et \in ElapsedTimes :
          update(dt, et) /\ UNCHANGED <<inputVars, frameVars, functionVars, terrainVars>>
    \/ \E d \in Durations :
          setTransitionDuration(d) /\ UNCHANGED <<inputVars, frameVars, functionVars, terrainVars>>

SpecAnyDuration == Init /\ [][NextAnyDuration]_vars

\* the events the window delivers to the listeners of InputHandler, in any
\* order
NextInput ==
    \/ \E code \in Codes : keydown(code) /\ UNCHANGED <<frameVars, functionVars, terrainVars>>
    \/ \E code \in Codes : keyup(code) /\ UNCHANGED <<frameVars, functionVars, terrainVars>>
    \/ blur /\ UNCHANGED <<frameVars, functionVars, terrainVars>>

SpecInput == Init /\ [][NextInput]_vars

---------------------------------------------------------------------------
(* The frame loop with the clock running *)

\* clock.getDelta() of a frame that comes after the previous one
PositiveDeltaTimes == 1..MaxDelta

\* the history of the transition in flight: a toggle() from idle starts it,
\* a toggle() during it is a reversal, and every update() during it adds its
\* deltaTime (the sum is kept up to one frame past the duration)
startedOrReversed ==
    IF isTransitioning
    THEN [sinceStart EXCEPT !.reversed = TRUE]
    ELSE [elapsed |-> 0, reversed |-> FALSE]

accumulated(deltaTime) ==
    LET sum == sinceStart.elapsed + deltaTime
        cap == transitionDuration + MaxDelta
    IN  IF isTransitioning
        THEN [sinceStart EXCEPT !.elapsed = IF sum > cap THEN cap ELSE sum]
        ELSE sinceStart

\* the toggle() calls of the transition in flight: the state it started
\* from, whether their number is odd, whether the last step was a toggle()
\* and what the four fields were before it, and whether the last two steps
\* were toggle() calls both made while the transition was active
toggled ==
    [from   |-> IF isTransitioning THEN toggles.from ELSE currentState,
     odd    |-> IF isTransitioning THEN ~toggles.odd ELSE TRUE,
     last   |-> TRUE,
     pair   |-> isTransitioning /\ toggles.last
                /\ toggles.before.isTransitioning,
     before |-> machine]

\* a frame ends the run of consecutive toggle() calls
drawn ==
    [toggles EXCEPT !.last = FALSE, !.pair = FALSE,
                    !.before = NoToggles.before]

\* the Space key, pressed at any moment
pressSpace ==
    /\ toggle
    /\ sinceStart' = startedOrReversed
    /\ toggles' = toggled
    /\ UNCHANGED <<inputVars, frame, functionVars, terrainVars>>

\* animate(): one frame, deltaTime after the previous one
animate(deltaTime, elapsedTime) ==
    /\ update(deltaTime, elapsedTime)
    /\ sinceStart' = accumulated(deltaTime)
    /\ frame' = 1 - frame
    /\ toggles' = drawn
    /\ UNCHANGED <<inputVars, functionVars, terrainVars>>

NextFrames ==
    \/ pressSpace
    \/ \E dt \in PositiveDeltaTimes, et \in ElapsedTimes : animate(dt, et)

\* a step that draws a frame: only animate() changes the parity
frameDrawn == frame' = 1 - frame

\* animate() re-arms itself with requestAnimationFrame before anything else,
\* so another frame always comes: the frame step is weakly fair
SpecFrames ==
    /\ Init
    /\ [][NextFrames]_vars
    /\ WF_frame(frameDrawn)

---------------------------------------------------------------------------
(* Calls of the pure functions *)

\* normalised coordinates: the two borders of the terrain and its middle
NormCoords == {0, Q \div 2, Q}

\* world coordinates: the middle, the two borders and one unit past each
WorldCoords == {0 - (width \div 2) - 1, 0 - (width \div 2), 0, width \div 2,
                width \div 2 + 1}

OctaveCounts == 0..MaxOctaves

\* persistence arguments, in tenths: -0.5, 0, 0.5 and 1
Persistences == {0 - 5, 0, 5, 10}

\* lacunarity arguments, in tenths: 2.0 and 2.2
Lacunarities == {20, 22}

\* progress values, in units of 1/ProgressScale
Progresses == 0..ProgressScale

LayerQueries(fn) ==
    {[fn |-> fn, x |-> x, y |-> y, octaves |-> o, persistence |-> p,
      lacunarity |-> l, scale |-> 10] :
        x \in NormCoords, y \in NormCoords, o \in OctaveCounts,
        p \in Persistences, l \in Lacunarities}

HeightQueries ==
    {[fn |-> "alpineHeight", x |-> x, y |-> y] :
        x \in NormCoords, y \in NormCoords}
    \cup {[fn |-> "getHeightAt", x |-> x, z |-> z] :
        x \in WorldCoords, z \in WorldCoords}

Queries ==
    LayerQueries("fbm") \cup LayerQueries("ridgedNoise") \cup HeightQueries
    \cup {[fn |-> "easeInOutCubic", t |-> t] : t \in Progresses}

\* a program that is about to make one call, with any noise function
InitFunctions ==
    /\ Constructed
    /\ timeIndicator = "initial"
    /\ noiseTable \in Tables
    /\ query \in Queries
    /\ answer = Pending

\* the call on record returns
returns(value) ==
    /\ answer = Pending
    /\ answer' = value
    /\ UNCHANGED <<lightingVars, inputVars, frameVars, terrainVars, noiseTable,
                   query>>

callFbm ==
    /\ query.fn = "fbm"
    /\ returns(fbm(noiseTable, query.x, query.y, query.octaves,
                   query.persistence, query.lacunarity, query.scale))

callRidgedNoise ==
    /\ query.fn = "ridgedNoise"
    /\ returns(ridgedNoise(noiseTable, query.x, query.y, query.octaves,
                           query.persistence, query.lacunarity, query.scale))

callAlpineHeight ==
    /\ query.fn = "alpineHeight"
    /\ returns(alpineHeight(noiseTable, query.x, query.y))

callGetHeightAt ==
    /\ query.fn = "getHeightAt"
    /\ returns(getHeightAt(noiseTable, query.x, query.z))

callEaseInOutCubic ==
    /\ query.fn = "easeInOutCubic"
    /\ returns(easeInOutCubic(Fin(query.t)))

NextFunctions ==
    \/ callFbm
    \/ callRidgedNoise
    \/ callAlpineHeight
    \/ callGetHeightAt
    \/ callEaseInOutCubic

SpecFunctions == InitFunctions /\ [][NextFunctions]_vars

\* the page is loaded again: the module runs createNoise2D() anew, and the
\* record of the last call made before stays with whoever made it
reload ==
    /\ answer # Pending
    /\ noiseTable' \in Tables
    /\ UNCHANGED <<lightingVars, inputVars, frameVars, terrainVars, query,
                   answer>>

\* a program that is about to ask for a height
InitHeights ==
    /\ InitFunctions
    /\ query \in HeightQueries

NextReload ==
    \/ callAlpineHeight
    \/ callGetHeightAt
    \/ reload

SpecReload == InitHeights /\ [][NextReload]_vars

---------------------------------------------------------------------------
(* The blend and remap steps of alpineHeight on given layer values *)

\* values the ridgedNoise layer is documented to return, in units of 1/Q
RidgeValues == {0, Q \div 2, Q}

\* one value for each of the four layers alpineHeight blends
LayerValues ==
    {[fn |-> "remap", baseHeight |-> b, ridges |-> r, largeScale |-> l,
      detailNoise |-> d] :
        b \in NoiseValues, r \in RidgeValues, l \in NoiseValues,
        d \in NoiseValues}

\* alpineHeight is about to blend four layer values
InitRemap ==
    /\ Constructed
    /\ timeIndicator = "initial"
    /\ noiseTable = [c \in Cells |-> 0]
    /\ query \in LayerValues
    /\ answer = Pending

\* height = (height + 1) * 0.5 of the blended layers
callRemap ==
    /\ query.fn = "remap"
    /\ returns(Fin(Remapped(query.baseHeight, query.ridges, query.largeScale,
                            query.detailNoise)))

NextRemap == callRemap

SpecRemap == InitRemap /\ [][NextRemap]_vars

---------------------------------------------------------------------------
(* TerrainGenerator.generate() *)

\* new THREE.PlaneGeometry(width, depth, segments, segments): the grid has
\* segments + 1 vertices along each side
VertexCount == (segments + 1) * (segments + 1)

\* world x (or z) of the vertices of column (or row) k of the grid
VertexCoord(k, extent) == (k * extent) \div segments - extent \div 2

\* nx and nz of vertex i, counted from 1, rows first
VertexNx(i) ==
    ((VertexCoord((i - 1) % (segments + 1), width) + width \div 2) * Q)
        \div width

VertexNz(i) ==
    ((VertexCoord((i - 1) \div (segments + 1), depth) + depth \div 2) * Q)
        \div depth

\* the local array heights of createGeometry()
VertexHeights(table) ==
    [i \in 1..VertexCount |-> alpineHeight(table, VertexNx(i), VertexNz(i))]

\* positions[i * 3 + 1] = height * this.heightScale
Displaced(height) ==
    IF height.kind = "fin" THEN Fin(height.v * heightScale) ELSE height

\* createGeometry(): every vertex pushes its height on this.heightData,
\* which nothing empties, and the new geometry gets the attribute aHeight
\* and the displaced positions
createGeometry ==
    LET heights == VertexHeights(noiseTable)
    IN  /\ heightData' = heightData \o heights
        /\ geometry' = [aHeight |-> heights,
                        y |-> [i \in 1..VertexCount |-> Displaced(heights[i])]]

\* generate(), called at most MaxGenerate times
generate ==
    /\ Len(heightData) < MaxGenerate * VertexCount
    /\ createGeometry
    /\ UNCHANGED <<lightingVars, inputVars, frameVars, functionVars>>

\* the calls of getHeightAt
GetHeightAtQueries ==
    {[fn |-> "getHeightAt", x |-> x, z |-> z] :
        x \in WorldCoords, z \in WorldCoords}

\* a TerrainGenerator fresh from its constructor, with any noise function
\* and one call of getHeightAt to come
InitTerrain ==
    /\ InitFunctions
    /\ query \in GetHeightAtQueries

NextTerrain ==
    \/ generate
    \/ callGetHeightAt

SpecTerrain == InitTerrain /\ [][NextTerrain]_vars

---------------------------------------------------------------------------
(* Properties *)

opposite(st) == IF st = 0 THEN 1 ELSE 0

\* C1: when toggle() reverses an active transition, the lighting state
\* pushed by the first update() after it, taken with deltaTime = 0, equals
\* the one pushed by the last update() before it: the emitted state (its
\* terrainDayNightMix, its sunIntensity, ...) does not jump at the reversal.
\* currentColors holds the state last pushed, and toggle() leaves it alone.
C1_ReversalContinuesFromBlend ==
    [][(/\ lastOp.op = "toggle" /\ lastOp.wasActive /\ lastOp.afterPush
        /\ lastOp'.op = "update" /\ lastOp'.dt = 0)
       => /\ currentColors' = currentColors
          /\ scene' = scene
          /\ terrainUniforms'.uDayNightMix = terrainUniforms.uDayNightMix]_vars

\* C2: getCurrentValue() is always a number in [0,1], and when idle it is
\* currentState exactly.
C2_CurrentValueInUnitRange ==
    /\ getCurrentValue.kind = "fin"
    /\ getCurrentValue.v >= 0
    /\ getCurrentValue.v <= Q
    /\ ~isTransitioning => getCurrentValue = Fin(currentState * Q)

\* C3: toggle() from idle sets targetState to the opposite of currentState,
\* isTransitioning to true and progress to 0, and leaves currentState alone.
C3_ToggleFromIdle ==
    [][(lastOp'.op = "toggle" /\ ~isTransitioning)
       => /\ targetState' = opposite(currentState)
          /\ isTransitioning' = TRUE
          /\ transitionProgress' = Fin(0)
          /\ currentState' = currentState]_vars

\* a toggle() from idle Night has just started a transition towards Day
C3_Witness ==
    /\ lastOp.op = "toggle" /\ ~lastOp.wasActive
    /\ currentState = 1 /\ targetState = 0
    /\ isTransitioning /\ transitionProgress = Fin(0)

\* C4: toggle() during an active transition flips targetState only: progress,
\* currentState and isTransitioning keep their values; and a step that resets
\* a non-zero progress to 0 is always a toggle() made from idle.
C4_ToggleWhileActive ==
    [][/\ (lastOp'.op = "toggle" /\ isTransitioning)
          => /\ targetState' = opposite(targetState)
             /\ transitionProgress' = transitionProgress
             /\ currentState' = currentState
             /\ isTransitioning' = isTransitioning
       /\ (transitionProgress' = Fin(0) /\ transitionProgress # Fin(0))
          => (lastOp'.op = "toggle" /\ ~isTransitioning)]_vars

\* a toggle() made at progress 0.3 of a transition towards Night has turned
\* the target back to Day and left the progress at 0.3
C4_Witness ==
    /\ lastOp.op = "toggle" /\ lastOp.wasActive
    /\ isTransitioning /\ transitionProgress = Fin(3)
    /\ transitionDuration = DefaultDuration
    /\ currentState = 0 /\ targetState = 0

\* C5: an active update() adds deltaTime/duration to the progress; when the
\* sum is >= 1 the progress becomes exactly 1, currentState becomes
\* targetState and the machine is idle after that same call; otherwise it
\* stays active and currentState and targetState keep their values.
C5_ActiveUpdateAdvances ==
    [][(lastOp'.op = "update" /\ isTransitioning)
       => LET sum == transitionProgress.v
                     + (lastOp'.dt * ProgressScale) \div transitionDuration
          IN  /\ targetState' = targetState
              /\ IF sum >= ProgressScale
                 THEN /\ transitionProgress' = Fin(ProgressScale)
                      /\ currentState' = targetState
                      /\ isTransitioning' = FALSE
                 ELSE /\ transitionProgress' = Fin(sum)
                      /\ currentState' = currentState
                      /\ isTransitioning' = TRUE]_vars

\* the second of two update(1.25) calls of a transition from Day to Night
\* with duration 2.5 has ended it: progress 1, Night, idle
C5_Witness ==
    /\ lastOp.op = "update" /\ lastOp.dt = 5 /\ lastOp.wasActive
    /\ lastOp.afterPush
    /\ transitionDuration = DefaultDuration
    /\ transitionProgress = Fin(ProgressScale)
    /\ currentState = 1 /\ targetState = 1 /\ ~isTransitioning

\* C6: with a non-positive duration an active transition completes on the
\* next update() for every deltaTime >= 0: progress becomes exactly 1 and the
\* machine is idle at targetState; progress is never NaN or negative.
C6_NonPositiveDurationCompletes ==
    [][(lastOp'.op = "update" /\ isTransitioning /\ transitionDuration <= 0)
       => /\ transitionProgress' = Fin(ProgressScale)
          /\ isTransitioning' = FALSE
          /\ currentState' = targetState]_vars

\* C7: with a positive duration the progress stays in [0,1] and currentState
\* and targetState are each Day (0) or Night (1).
C7_ProgressAndStatesInRange ==
    /\ transitionProgress.kind = "fin"
    /\ transitionProgress.v >= 0
    /\ transitionProgress.v <= ProgressScale
    /\ currentState \in {0, 1}
    /\ targetState \in {0, 1}

\* an update() with the largest deltaTime has overshot and was clamped to 1,
\* ending a reversed transition back at Day
C7_Witness ==
    /\ lastOp.op = "update" /\ lastOp.wasActive /\ lastOp.dt = MaxDelta
    /\ transitionProgress = Fin(ProgressScale)
    /\ transitionDuration = DefaultDuration \div 2
    /\ currentState = 0 /\ ~isTransitioning

\* the canonical lighting state of Day (0) or Night (1)
C8_Canonical(st) == IF st = 0 THEN createDayState ELSE createNightState

\* a + (b - a) * e for an eased factor e in units of 1/Q
C8_Mix(a, b, e) == Fin(a.v + ((b.v - a.v) * e.v) \div Q)

\* C8: an active update() of a transition whose target differs from its
\* start state pushes a state whose scalar and colour fields are the linear
\* mix of the canonical start and target states at easeInOutCubic of the
\* progress after the increment; at progress 0.5 of Day -> Night the pushed
\* sunIntensity is 1.15, and the update that reaches progress 1 pushes the
\* target's canonical values.
C8_PushedStateIsEasedLerp ==
    [][(lastOp'.op = "update" /\ isTransitioning /\ targetState # currentState)
       => LET e    == easeInOutCubic(transitionProgress')
              from == C8_Canonical(currentState)
              to   == C8_Canonical(targetState)
          IN  /\ \A f \in ScalarFields :
                    currentColors'[f] = C8_Mix(from[f], to[f], e)
              /\ \A f \in ColorFields : \A i \in 1..3 :
                    currentColors'[f][i] = C8_Mix(from[f][i], to[f][i], e)
              /\ lastOp'.pushed
              /\ scene' = applyScene(currentColors')
              /\ skyUniforms' = applySky(skyUniforms', currentColors')
              /\ terrainUniforms' = applyTerrain(terrainUniforms', currentColors')
              /\ (currentState = 0 /\ transitionProgress' = Fin(5))
                 => /\ scene'.sunLightIntensity = Fin(11500)
                    /\ terrainUniforms'.uSunIntensity = Fin(11500)
              /\ transitionProgress' = Fin(ProgressScale)
                 => /\ \A f \in ScalarFields \cup ColorFields :
                          currentColors'[f] = to[f]
                    /\ targetState = 1 => scene'.sunLightIntensity = Sc(3)]_vars

\* update(1.25) after toggle() from idle Day, duration 2.5: progress 0.5 and
\* a sun intensity of 1.15 on the light
C8_Witness ==
    /\ lastOp.op = "update" /\ lastOp.dt = 5 /\ lastOp.wasActive
    /\ ~lastOp.afterPush
    /\ transitionDuration = DefaultDuration
    /\ currentState = 0 /\ targetState = 1 /\ isTransitioning
    /\ transitionProgress = Fin(5)
    /\ scene.sunLightIntensity = Fin(11500)

\* C9: update() while idle changes only the time uniforms of the sky and of
\* the terrain material and pushes no lighting state; every update(), idle
\* or active, forwards its elapsedTime to both.
C9_IdleUpdateOnlyForwardsTime ==
    [][lastOp'.op = "update"
       => /\ skyUniforms'.uTime = lastOp'.et
          /\ terrainUniforms'.uTime = lastOp'.et
          /\ ~isTransitioning
             => /\ UNCHANGED <<currentState, targetState, transitionProgress,
                              isTransitioning, transitionDuration,
                              currentColors, dayColors, nightColors, scene,
                              timeIndicator>>
                /\ skyUniforms' = [skyUniforms EXCEPT !.uTime = lastOp'.et]
                /\ terrainUniforms' =
                      [terrainUniforms EXCEPT !.uTime = lastOp'.et]
                /\ ~lastOp'.pushed]_vars

\* an update() made while idle at Night has set both time uniforms
C9_Witness ==
    /\ lastOp.op = "update" /\ ~lastOp.wasActive /\ ~lastOp.pushed
    /\ lastOp.et = 1 /\ skyUniforms.uTime = 1 /\ terrainUniforms.uTime = 1
    /\ currentState = 1 /\ ~isTransitioning
    /\ scene.sunLightIntensity = Sc(3)

\* C10: isDay() holds exactly when idle at Day and isNight() exactly when
\* idle at Night: never both, neither during a transition, exactly one of
\* them when idle.
C10_IsDayIsNight ==
    /\ isDay <=> (~isTransitioning /\ currentState = 0)
    /\ isNight <=> (~isTransitioning /\ currentState = 1)
    /\ ~(isDay /\ isNight)
    /\ isTransitioning => (~isDay /\ ~isNight)
    /\ ~isTransitioning => (isDay # isNight)

\* mid-transition from Day, where neither holds
C10_Witness ==
    /\ isTransitioning /\ currentState = 0 /\ targetState = 1
    /\ transitionProgress.v > 0
    /\ ~isDay /\ ~isNight


\* C11: no sequence of toggle(), update() and setTransitionDuration() calls
\* (getCurrentValue, isDay and isNight only read) changes a field of the
\* canonical day or night state, and no vector or colour object of the
\* interpolation buffer is an object of a canonical state: the blend is
\* written into objects of the buffer alone.
C11_CanonicalStatesImmutable ==
    /\ dayColors = createDayState
    /\ nightColors = createNightState
    /\ \A f \in DOMAIN currentRefs :
          currentRefs[f][1] \notin {"dayColors", "nightColors"}

\* an active update has just written a blend that is neither canonical state
C11_Witness ==
    /\ lastOp.op = "update"
    /\ lastOp.pushed
    /\ currentColors # createDayState
    /\ currentColors # createNightState
    /\ dayColors = createDayState
    /\ nightColors = createNightState


\* C12: for every sequence of keydown, keyup and blur events, whenever the
\* 'down' trigger of a key runs again (for Space: toggle() is called again),
\* a keyup event for that key has come since it last ran.
C12_KeyupBetweenDownCallbacks ==
    (inputLast.down /\ inputLast.again) => "keyup" \in inputLast.between

\* C13: with frames that keep coming, each with a positive deltaTime, a
\* transition started by toggle() from idle ends: the machine is idle
\* again exactly at the first update() at which the deltaTime accumulated
\* since that toggle() reaches the duration (not later: while active the sum
\* is below the duration; not earlier: the update that ends it brings the
\* sum to the duration or past it), whatever toggle() calls come in between.
C13_TransitionEndsWhenDurationElapsed ==
    /\ [](isTransitioning => sinceStart.elapsed < transitionDuration)
    /\ [][(isTransitioning /\ ~isTransitioning')
            => sinceStart'.elapsed >= transitionDuration]_vars
    /\ (isTransitioning ~> ~isTransitioning)

\* a transition that was reversed on its way has just ended
C13_Witness ==
    /\ ~isTransitioning
    /\ lastOp.op = "update"
    /\ lastOp.wasActive
    /\ sinceStart.reversed
    /\ sinceStart.elapsed >= transitionDuration


\* whether |2 * v| exceeds the extent, i.e. (v + extent/2) / extent lies
\* outside [0, 1]
OffTerrain(v, extent) == 2 * v < 0 - extent \/ 2 * v > extent

\* C14: getHeightAt(x, z) returns exactly 0 whenever (x + width/2)/width or
\* (z + depth/2)/depth lies outside [0, 1], and alpineHeight(nx, nz) *
\* heightScale otherwise; the borders 0 and 1 are inside.
C14_GetHeightAtZeroOffTerrain ==
    (query.fn = "getHeightAt" /\ answer # Pending) =>
        LET nx == ((2 * query.x + width) * Q) \div (2 * width)
            nz == ((2 * query.z + depth) * Q) \div (2 * depth)
            h  == alpineHeight(noiseTable, nx, nz)
        IN  answer = IF OffTerrain(query.x, width) \/ OffTerrain(query.z, depth)
                     THEN Fin(0)
                     ELSE IF h.kind = "fin" THEN Fin(h.v * heightScale) ELSE h

\* a call on two borders of the terrain has returned a height above 0
C14_Witness ==
    /\ query.fn = "getHeightAt"
    /\ 2 * query.x = width
    /\ 2 * query.z = 0 - depth
    /\ answer.kind = "fin"
    /\ answer.v > 0

\* C15: whatever values in [-1, 1] the noise function takes, alpineHeight
\* returns a number in [0, 1].
C15_AlpineHeightInUnitRange ==
    (query.fn = "alpineHeight" /\ answer # Pending) =>
        (answer.kind = "fin" /\ answer.v >= 0 /\ answer.v <= Q)

\* C16 as stated: for every combination of arguments and every noise
\* function with values in [-1, 1], fbm returns a number in [-1, 1].
C16_FbmInRange ==
    (query.fn = "fbm" /\ answer # Pending) =>
        (answer.kind = "fin" /\ answer.v >= 0 - Q /\ answer.v <= Q)

\* C16, amended: with at least one octave and a persistence in its
\* documented range [0, 1], for every lacunarity and scale and every noise
\* function with values in [-1, 1], fbm returns a number in [-1, 1].
C16_FbmInRangeWithDocumentedArguments ==
    (/\ query.fn = "fbm"
     /\ answer # Pending
     /\ query.octaves >= 1
     /\ query.persistence >= 0
     /\ query.persistence <= 10) =>
        (answer.kind = "fin" /\ answer.v >= 0 - Q /\ answer.v <= Q)

\* an fbm of several octaves has returned the largest value, 1
C16_Witness ==
    /\ query.fn = "fbm"
    /\ query.octaves >= 2
    /\ query.persistence = 5
    /\ answer = Fin(Q)

\* C17 as stated: for every (x, y) and all octaves, persistence, lacunarity
\* and scale, ridgedNoise returns a number in [0, 1].
C17_RidgedNoiseInRange ==
    (query.fn = "ridgedNoise" /\ answer # Pending) =>
        (answer.kind = "fin" /\ answer.v >= 0 /\ answer.v <= Q)

\* C17, amended: with at least one octave and a persistence in [0, 1], for
\* every (x, y), lacunarity and scale, ridgedNoise returns a number in
\* [0, 1].
C17_RidgedNoiseInRangeWithDocumentedArguments ==
    (/\ query.fn = "ridgedNoise"
     /\ answer # Pending
     /\ query.octaves >= 1
     /\ query.persistence >= 0
     /\ query.persistence <= 10) =>
        (answer.kind = "fin" /\ answer.v >= 0 /\ answer.v <= Q)

\* a ridgedNoise of several octaves over negative and zero noise values has
\* returned a value strictly between 0 and 1
C17_Witness ==
    /\ query.fn = "ridgedNoise"
    /\ query.octaves >= 2
    /\ query.persistence = 5
    /\ \E c \in Cells : noiseTable[c] < 0
    /\ answer.kind = "fin"
    /\ answer.v > 0
    /\ answer.v < Q

\* C18: the height on record for a point is the height the running program
\* gives for that point, also when the record was made by an earlier run of
\* the program: two runs produce the same height field.
C18_SameHeightInEveryRun ==
    /\ (query.fn = "alpineHeight" /\ answer # Pending) =>
            answer = alpineHeight(noiseTable, query.x, query.y)
    /\ (query.fn = "getHeightAt" /\ answer # Pending) =>
            answer = getHeightAt(noiseTable, query.x, query.z)

\* C19: easeInOutCubic maps 0 to 0, 0.5 to 0.5 and 1 to 1, takes [0, 1]
\* into [0, 1] and is non-decreasing there.
C19_EaseFixedPointsAndMonotone ==
    (query.fn = "easeInOutCubic" /\ answer # Pending) =>
        /\ answer.kind = "fin"
        /\ answer.v >= 0
        /\ answer.v <= Q
        /\ query.t = 0 => answer.v = 0
        /\ 2 * query.t = ProgressScale => 2 * answer.v = Q
        /\ query.t = ProgressScale => answer.v = Q
        /\ \A u \in Progresses :
              u >= query.t => easeInOutCubic(Fin(u)).v >= answer.v

\* the function has returned a value of its second branch, below 1
C19_Witness ==
    /\ query.fn = "easeInOutCubic"
    /\ 2 * query.t > ProgressScale
    /\ answer.kind = "fin"
    /\ answer.v > Q \div 2
    /\ answer.v < Q


\* C20: a call of applyState delivers the whole lighting state: after every
\* push (the constructor's and that of every active update) the sun light
\* (position, colour, intensity), the ambient and hemisphere lights, the
\* sky uniforms, the fog (colour, density), the lighting and fog uniforms of
\* the terrain shader and the renderer exposure all hold the values of the
\* state that was pushed; none is left with an older value.
C20_PushDeliversWholeState ==
    lastOp.pushed =>
        /\ scene.sunLightPosition = currentColors.sunPosition
        /\ scene.sunLightColor = currentColors.sunColor
        /\ scene.sunLightIntensity = currentColors.sunIntensity
        /\ scene.ambientLightColor = currentColors.ambientColor
        /\ scene.ambientLightIntensity = currentColors.ambientIntensity
        /\ scene.hemiLightColor = currentColors.hemiSkyColor
        /\ scene.hemiLightGroundColor = currentColors.hemiGroundColor
        /\ scene.hemiLightIntensity = currentColors.hemiIntensity
        /\ scene.fogColor = currentColors.fogColor
        /\ scene.fogDensity = currentColors.fogDensity
        /\ scene.toneMappingExposure = currentColors.exposure
        /\ skyUniforms.uTopColor = currentColors.skyTopColor
        /\ skyUniforms.uMiddleColor = currentColors.skyMiddleColor
        /\ skyUniforms.uBottomColor = currentColors.skyBottomColor
        /\ skyUniforms.uHorizonColor = currentColors.skyHorizonColor
        /\ skyUniforms.uSunColor = currentColors.skySunColor
        /\ skyUniforms.uSunPosition = currentColors.sunPosition
        /\ skyUniforms.uSunIntensity = currentColors.skySunIntensity
        /\ skyUniforms.uStarIntensity = currentColors.skyStarIntensity
        /\ terrainUniforms.uSunDirection = Normalize(currentColors.sunDirection)
        /\ terrainUniforms.uSunColor = currentColors.sunColor
        /\ terrainUniforms.uSunIntensity = currentColors.sunIntensity
        /\ terrainUniforms.uAmbientColor = currentColors.ambientColor
        /\ terrainUniforms.uAmbientIntensity = currentColors.ambientIntensity
        /\ terrainUniforms.uDayNightMix = currentColors.terrainDayNightMix
        /\ terrainUniforms.uFogColor = currentColors.fogColor
        /\ terrainUniforms.uFogDensity = currentColors.fogDensity

\* an active update has just pushed a blend in which the stars are partly
\* lit and the terrain is partly in its night look
C20_Witness ==
    /\ lastOp.op = "update"
    /\ lastOp.pushed
    /\ isTransitioning
    /\ skyUniforms.uStarIntensity.kind = "fin"
    /\ skyUniforms.uStarIntensity.v > 0
    /\ skyUniforms.uStarIntensity.v < createNightState.skyStarIntensity.v
    /\ terrainUniforms.uDayNightMix = currentColors.terrainDayNightMix
    /\ terrainUniforms.uDayNightMix # createDayState.terrainDayNightMix

\* C21: after any number of generate() calls, heightData holds exactly one
\* height per vertex of the grid, (segments + 1)^2 entries; entry i is the
\* alpineHeight of vertex i, a number in [0, 1], equal to the aHeight
\* attribute of the current geometry and to the vertex's displaced y divided
\* by heightScale.
C21_HeightDataOnePerVertex ==
    geometry # NoGeometry
    => /\ Len(heightData) = VertexCount
       /\ \A i \in 1..VertexCount :
             /\ heightData[i] = alpineHeight(noiseTable, VertexNx(i), VertexNz(i))
             /\ heightData[i].kind = "fin"
             /\ heightData[i].v >= 0
             /\ heightData[i].v <= Q
             /\ geometry.aHeight[i] = heightData[i]
             /\ geometry.y[i] = Fin(heightData[i].v * heightScale)

\* C22: whenever the machine is idle, what the sink holds is the canonical
\* state of currentState: canonical Day right after construction, and after
\* every completed transition, reversed or not, the canonical state of the
\* state it settled in.
C22_IdleSinkIsCanonical ==
    ~isTransitioning =>
        LET canonical == IF currentState = 0 THEN createDayState
                                             ELSE createNightState
        IN  /\ scene.sunLightPosition = canonical.sunPosition
            /\ scene.sunLightColor = canonical.sunColor
            /\ scene.sunLightIntensity = canonical.sunIntensity
            /\ scene.ambientLightColor = canonical.ambientColor
            /\ scene.ambientLightIntensity = canonical.ambientIntensity
            /\ scene.hemiLightColor = canonical.hemiSkyColor
            /\ scene.hemiLightGroundColor = canonical.hemiGroundColor
            /\ scene.hemiLightIntensity = canonical.hemiIntensity
            /\ scene.fogColor = canonical.fogColor
            /\ scene.fogDensity = canonical.fogDensity
            /\ scene.toneMappingExposure = canonical.exposure
            /\ skyUniforms.uTopColor = canonical.skyTopColor
            /\ skyUniforms.uMiddleColor = canonical.skyMiddleColor
            /\ skyUniforms.uBottomColor = canonical.skyBottomColor
            /\ skyUniforms.uHorizonColor = canonical.skyHorizonColor
            /\ skyUniforms.uSunColor = canonical.skySunColor
            /\ skyUniforms.uSunPosition = canonical.sunPosition
            /\ skyUniforms.uSunIntensity = canonical.skySunIntensity
            /\ skyUniforms.uStarIntensity = canonical.skyStarIntensity
            /\ terrainUniforms.uSunDirection = Normalize(canonical.sunDirection)
            /\ terrainUniforms.uSunColor = canonical.sunColor
            /\ terrainUniforms.uSunIntensity = canonical.sunIntensity
            /\ terrainUniforms.uAmbientColor = canonical.ambientColor
            /\ terrainUniforms.uAmbientIntensity = canonical.ambientIntensity
            /\ terrainUniforms.uDayNightMix = canonical.terrainDayNightMix
            /\ terrainUniforms.uFogColor = canonical.fogColor
            /\ terrainUniforms.uFogDensity = canonical.fogDensity

\* an update() has just completed a transition that was reversed on its way
\* and settled back in Day
C22_Witness ==
    /\ ~isTransitioning
    /\ currentState = 0
    /\ sinceStart.reversed
    /\ lastOp.op = "update"
    /\ lastOp.wasActive

\* C23: right after every update() call made while a transition was active,
\* getCurrentValue() equals the terrainDayNightMix of the blended state that
\* the call pushed to the sink, for every sequence of toggles, reversals
\* included.
C23_CurrentValueIsPushedMix ==
    (lastOp.op = "update" /\ lastOp.wasActive /\ lastOp.pushed)
    => /\ getCurrentValue = currentColors.terrainDayNightMix
       /\ getCurrentValue = terrainUniforms.uDayNightMix

\* C24: in every reachable state an idle machine has targetState equal to
\* currentState; and currentState changes only in the update() call that
\* completes a transition, never in toggle().
C24_TargetIsCurrentWhenIdle ==
    /\ [](~isTransitioning => targetState = currentState)
    /\ [][/\ currentState' # currentState
             => /\ lastOp'.op = "update"
                /\ isTransitioning
                /\ ~isTransitioning'
                /\ currentState' = targetState
          /\ lastOp'.op = "toggle" => currentState' = currentState]_vars

\* the update() that completed a transition has just moved currentState to
\* Night, and the machine is idle with the target equal to it
C24_Witness ==
    /\ lastOp.op = "update" /\ lastOp.wasActive
    /\ ~isTransitioning
    /\ currentState = 1 /\ targetState = 1

\* C25: two consecutive toggle() calls made while a transition is active
\* put currentState, targetState, the progress and isTransitioning back to
\* what they were before the pair; so a transition started from idle state S
\* that gets n toggle() calls in all before it completes, the starting one
\* counted, settles in the opposite of S when n is odd and in S when n is
\* even.
C25_TwoTogglesCancel ==
    [][/\ (lastOp'.op = "toggle" /\ isTransitioning /\ toggles.last
           /\ toggles.before.isTransitioning)
          => /\ currentState' = toggles.before.currentState
             /\ targetState' = toggles.before.targetState
             /\ transitionProgress' = toggles.before.transitionProgress
             /\ isTransitioning' = toggles.before.isTransitioning
       /\ (isTransitioning /\ ~isTransitioning')
          => currentState' = (IF toggles.odd THEN opposite(toggles.from)
                                             ELSE toggles.from)]_vars

\* the second of two toggle() calls made in a row at progress 0.3 of a
\* transition that started from Day and has had an even number of toggle()
\* calls: the target was Night between the two and is Day again
C25_Witness ==
    /\ toggles.pair
    /\ ~toggles.odd
    /\ toggles.from = 0
    /\ isTransitioning
    /\ transitionProgress = Fin(3)
    /\ targetState = 0
    /\ toggles.before.targetState = 1

\* C26: in alpineHeight, for every base height in [-1, 1], ridge value in
\* [0, 1], large-scale value in [-1, 1] and detail value in [-1, 1], the
\* remap step (height + 1) * 0.5 gives a non-negative value, so that the
\* power step height^1.3 has a non-negative base and gives a number, not NaN.
C26_RemapIsNonNegative ==
    (query.fn = "remap" /\ answer # Pending)
    => /\ answer.kind = "fin"
       /\ answer.v >= 0
       /\ Pow13(answer.v).kind = "fin"

=============================================================================
